---- MODULE Spec2Model ----
(***************************************************************************)
(* Model of the request execution core of the GoCardless Go client:        *)
(* BlockService (src/block_service.go) and WebhookService                  *)
(* (src/unnamed/part_000).  Every service method builds one http.Request,  *)
(* runs it under try(retries, fn), decodes the envelope {error, payload}   *)
(* and returns either the payload or an error.  The paging iterators keep  *)
(* a cursor and the last page and fetch the next page in Value.            *)
(*                                                                         *)
(* Pointers are modelled as sequences of length at most one: <<>> is nil,  *)
(* <<x>> points to x.  Go's empty string is "", an unset header reads ""   *)
(* (http.Header.Get).  Idempotency keys are naturals, 0 being the empty    *)
(* string.                                                                 *)
(***************************************************************************)
EXTENDS Naturals, Sequences, FiniteSets

\* ------------------------------------------------------------------ bounds
\* Largest retry count a caller passes with the retries option.
MaxRetries == 2
\* Number of idempotency keys NewIdempotencyKey hands out in one behaviour.
MaxKeys == 2
\* Number of pages one behaviour fetches through an iterator.
MaxPages == 2
\* Pages stored into the iterators before concurrent callers stop calling Value.
ConcPages == 1

\* ------------------------------------------------------- program constants
\* requestOptions{retries: 3}
DefaultRetries == 3
\* try(3, ...) in the iterators' Value
ValueRetries == 3

Nil == <<>>
Ptr(x) == <<x>>
Deref(p) == p[1]

\* ------------------------------------------------------------ the callers
\* Goroutines calling into the client, and iterator instances.  The
\* sequential specification uses the first of each.
Callers == {"g1", "g2"}
SeqCallers == {"g1"}
Iters == {"it1", "it2"}
SeqIters == {"it1"}

Services == {"block", "webhook"}

\* ------------------------------------------------------------- operations
Ops ==
  { "Block.Create", "Block.Get", "Block.List", "Block.Disable", "Block.Enable",
    "Block.BlockByRef", "Webhook.List", "Webhook.Get", "Webhook.Retry",
    "BlockIter.Value", "WebhookIter.Value" }

\* POST operations: they set Content-Type and Idempotency-Key.
WriteOps ==
  { "Block.Create", "Block.Disable", "Block.Enable", "Block.BlockByRef",
    "Webhook.Retry" }
\* Operations that encode a JSON body into a bytes.Buffer.
BodyOps == { "Block.Create", "Block.BlockByRef" }
\* Operations whose envelope embeds a *ListResult (a page).
ListOps == { "Block.List", "Webhook.List", "BlockIter.Value", "WebhookIter.Value" }
ValueOps == { "BlockIter.Value", "WebhookIter.Value" }

Method(op) == IF op \in WriteOps THEN "POST" ELSE "GET"

\* The path template each method formats (fmt.Sprintf(s.endpoint + ...)).
Path(op) ==
  CASE op \in {"Block.Create", "Block.List", "BlockIter.Value"} -> "/blocks"
    [] op = "Block.Get" -> "/blocks/%v"
    [] op = "Block.Disable" -> "/blocks/%v/actions/disable"
    [] op = "Block.Enable" -> "/blocks/%v/actions/enable"
    [] op = "Block.BlockByRef" -> "/block_by_ref"
    [] op \in {"Webhook.List", "WebhookIter.Value"} -> "/webhooks"
    [] op = "Webhook.Get" -> "/webhooks/%v"
    [] op = "Webhook.Retry" -> "/webhooks/%v/actions/retry"

\* The top-level key of the JSON body.
BodyKey(op) ==
  CASE op = "Block.Create" -> "blocks"
    [] op = "Block.BlockByRef" -> "data"
    [] OTHER -> ""

ValueOp(svc) == IF svc = "block" THEN "BlockIter.Value" ELSE "WebhookIter.Value"

\* ---------------------------------------------------------------- headers
HeaderNames ==
  { "Authorization", "GoCardless-Version", "GoCardless-Client-Library",
    "GoCardless-Client-Version", "User-Agent", "Content-Type" }
\* The headers the specification calls standard.
StandardHeaders ==
  { "Authorization", "GoCardless-Version", "GoCardless-Client-Library",
    "GoCardless-Client-Version", "User-Agent" }

BearerToken == "Bearer tok"
userAgent == "gocardless-pro-go/1.0.0"

NoHeaders == [h \in HeaderNames |-> ""]

\* ------------------------------------------------------- list parameters
Cursors == {"", "A"}
ParamKeys == {"after", "before", "limit"}
\* The parameter structs the callers pass to List and All.
ParamChoices ==
  { [after |-> "", before |-> "", limit |-> 0],
    [after |-> "A", before |-> "", limit |-> 50] }
NoParams == [after |-> "", before |-> "", limit |-> 0]

\* The zero value of each field: "" for the strings, 0 for Limit.
Zero(k) == IF k = "limit" THEN 0 ELSE ""

\* query.Values(p) with `omitempty` on every field: the key/value pairs of
\* the fields that are not the zero value.
Values(p) == [k \in {x \in ParamKeys : p[x] # Zero(x)} |-> p[k]]
NoQuery == [k \in {} |-> ""]
\* url.Values.Get: "" when the key is absent.
QueryGet(q, k) == IF k \in DOMAIN q THEN q[k] ELSE ""

\* -------------------------------------------------------- request options
\* Keys and header values the callers pass.  Generated keys are 1..MaxKeys,
\* so a caller's key never equals a generated one.
UserKeys == {101}
HeaderKeys == {102}

NoOverride == [h \in {} |-> ""]
HeaderOverrides == {[h \in {"Idempotency-Key"} |-> k] : k \in HeaderKeys}

\* requestOptions{retries: 3}
NewRequestOptions ==
  [retries |-> DefaultRetries, idempotencyKey |-> 0, headers |-> NoOverride]

WithRetries(n) == [opt |-> "retries", n |-> n, key |-> 0, headers |-> NoOverride]
WithIdempotencyKey(k) ==
  [opt |-> "key", n |-> 0, key |-> k, headers |-> NoOverride]
WithHeaders(hs) == [opt |-> "headers", n |-> 0, key |-> 0, headers |-> hs]

\* opt(o): one functional option applied to the options struct.
ApplyOption(o, opt) ==
  CASE opt.opt = "retries" -> [o EXCEPT !.retries = opt.n]
    [] opt.opt = "key" -> [o EXCEPT !.idempotencyKey = opt.key]
    [] opt.opt = "headers" -> [o EXCEPT !.headers = opt.headers]

\* for _, opt := range opts { opt(o) }
RECURSIVE ApplyOptions(_, _)
ApplyOptions(o, opts) ==
  IF opts = <<>> THEN o
  ELSE ApplyOptions(ApplyOption(o, Head(opts)), Tail(opts))

\* The option lists the callers pass.
OptLists ==
  {<<>>}
    \cup {<<WithRetries(n)>> : n \in 1..MaxRetries}
    \cup {<<WithIdempotencyKey(k)>> : k \in UserKeys}
    \cup {<<WithIdempotencyKey(k), WithHeaders(hs)>> :
            k \in UserKeys, hs \in HeaderOverrides}

\* Mutant: the generated key replaces a key the caller gave.
DefaultIdempotencyKeyAlways(o, fresh) == [o EXCEPT !.idempotencyKey = fresh]

\* if o.idempotencyKey == "" { o.idempotencyKey = NewIdempotencyKey() }
\* `fresh` is the key NewIdempotencyKey would return.
DefaultIdempotencyKey(o, fresh) ==
  IF o.idempotencyKey = 0 THEN [o EXCEPT !.idempotencyKey = fresh] ELSE o

\* ----------------------------------------------------------- the request
\* http.NewRequest(method, uri.String(), body): the request starts with no
\* header and with the background context.
NewRequest(op, identity, q, body) ==
  [ method |-> Method(op), path |-> Path(op), identity |-> identity,
    query |-> q, body |-> body, header |-> NoHeaders, key |-> 0,
    ctx |-> "background" ]

\* (*Request).WithContext returns a shallow copy of the request carrying ctx;
\* the receiver is left as it was.
WithContext(req, ctx) == [req EXCEPT !.ctx = ctx]

\* `req.WithContext(ctx)` as a statement: the copy is dropped and the method
\* goes on with req.
WithContextStmt(req, ctx) ==
  LET copy == WithContext(req, ctx) IN req

\* req.Header.Set for the headers every service method sets.
SetServiceHeaders(req) ==
  [req EXCEPT !.header = [h \in HeaderNames |->
     CASE h = "Authorization" -> BearerToken
       [] h = "GoCardless-Version" -> "2015-07-06"
       [] h = "GoCardless-Client-Library" -> "<no value>"
       [] h = "GoCardless-Client-Version" -> "1.0.0"
       [] h = "User-Agent" -> userAgent
       [] OTHER -> req.header[h]]]

\* The two more headers of the POST methods.
SetWriteHeaders(req, o) ==
  [req EXCEPT !.header["Content-Type"] = "application/json",
              !.key = o.idempotencyKey]

\* for key, value := range o.headers { req.Header.Set(key, value) }
SetOverrides(req, hs) ==
  [req EXCEPT
     !.header = [h \in HeaderNames |->
                   IF h \in DOMAIN hs THEN hs[h] ELSE req.header[h]],
     !.key = IF "Idempotency-Key" \in DOMAIN hs
             THEN hs["Idempotency-Key"] ELSE req.key]

\* req.Header.Set in the iterators' Value: Authorization and the version.
SetValueHeaders(req) ==
  [req EXCEPT !.header = [h \in HeaderNames |->
     CASE h = "Authorization" -> BearerToken
       [] h = "GoCardless-Version" -> "2015-07-06"
       [] OTHER -> req.header[h]]]

\* The request a service method builds, from NewRequest to the overrides.
BuildRequest(op, identity, p, o) ==
  LET q == IF op \in ListOps THEN Values(p) ELSE NoQuery
      body == IF op \in BodyOps THEN "full" ELSE "none"
      r0 == WithContextStmt(NewRequest(op, identity, q, body), "caller")
      r1 == SetServiceHeaders(r0)
      r2 == IF op \in WriteOps THEN SetWriteHeaders(r1, o) ELSE r1
  IN SetOverrides(r2, o.headers)

\* Mutant: Value without `p.After = c.cursor`.
BuildValueRequestNoCursor(op, it) ==
  SetValueHeaders(
    WithContextStmt(NewRequest(op, "", Values(it.params), "none"), "caller"))

\* The request Value builds: p := c.params; p.After = c.cursor; ...
BuildValueRequest(op, it) ==
  LET p == [it.params EXCEPT !.after = it.cursor]
      r0 == WithContextStmt(NewRequest(op, "", Values(p), "none"), "caller")
  IN SetValueHeaders(r0)

\* ---------------------------------------------------------- the responses
ApiErrs == {"e1"}
PageIds == {1, 2}
\* A page: *BlockListResult / *WebhookListResult, with meta.cursors.after.
Pages == [id : PageIds, after : Cursors]
\* A single resource: *Block, *Webhook, *BlockBlockByRefResult.
Resources == {[id |-> 1, after |-> ""]}

Payloads(op) == IF op \in ListOps THEN Pages ELSE Resources

Statuses == {200, 500}

\* What the peer makes of one attempt.  dial = TRUE: the round trip fails
\* with a transport error, after the request body was read or not (read).
\* Otherwise a response with a status and a JSON body arrives: `valid` says
\* whether the body decodes without error, `error` and `payload` are the two
\* envelope keys the body populates.
Responses(op) ==
  [dial : {TRUE}, read : BOOLEAN, status : {0}, valid : {FALSE},
   error : {Nil}, payload : {Nil}]
  \cup
  [dial : {FALSE}, read : {TRUE}, status : Statuses \ (200..299),
   valid : {TRUE}, error : {Nil}, payload : {Nil}]
  \cup
  [dial : {FALSE}, read : {TRUE}, status : Statuses \cap (200..299),
   valid : BOOLEAN,
   error : {Nil} \cup {Ptr(e) : e \in ApiErrs},
   payload : {Nil} \cup {Ptr(x) : x \in Payloads(op)}]

\* ------------------------------------------------------------------ errors
NoErr == [kind |-> "nil", detail |-> ""]
TransportErr == [kind |-> "transport", detail |-> ""]
CanceledErr == [kind |-> "canceled", detail |-> ""]
StatusErr == [kind |-> "status", detail |-> ""]
DecodeErr == [kind |-> "decode", detail |-> ""]
MissingResult == [kind |-> "errors.New", detail |-> "missing result"]
\* result.Err returned as the error value.
ApiErr(p) == [kind |-> "api", detail |-> Deref(p)]

\* responseErr(res): an error for a status that is not 2xx.
responseErr(res) == IF res.status \in 200..299 THEN NoErr ELSE StatusErr

\* var result struct { Err *APIError; <payload pointer> }
NoResult == [Err |-> Nil, payload |-> Nil]

\* json.NewDecoder(res.Body).Decode(&result): a key the body populates is
\* stored, a field whose key the body lacks keeps what it held.
Decode(result, res) ==
  [ Err |-> IF res.error # Nil THEN res.error ELSE result.Err,
    payload |-> IF res.payload # Nil THEN res.payload ELSE result.payload ]

\* client.Do(req): the context of the request decides whether the round
\* trip is given up.
DoErr(req, cancelled, res) ==
  IF req.ctx = "caller" /\ cancelled THEN CanceledErr
  ELSE IF res.dial THEN TransportErr
  ELSE NoErr

\* Mutant: the closure without `if result.Err != nil { return result.Err }`.
fnNoErrCheck(req, cancelled, result, res) ==
  LET derr == DoErr(req, cancelled, res) IN
  IF derr # NoErr THEN [err |-> derr, result |-> result]
  ELSE IF responseErr(res) # NoErr
    THEN [err |-> responseErr(res), result |-> result]
  ELSE IF ~res.valid
    THEN [err |-> DecodeErr, result |-> Decode(result, res)]
  ELSE [err |-> NoErr, result |-> Decode(result, res)]

\* Mutant: the closure without the responseErr(res) check.
fnNoStatusCheck(req, cancelled, result, res) ==
  LET derr == DoErr(req, cancelled, res) IN
  IF derr # NoErr THEN [err |-> derr, result |-> result]
  ELSE IF ~res.valid
    THEN [err |-> DecodeErr, result |-> Decode(result, res)]
  ELSE LET d == Decode(result, res) IN
    IF d.Err # Nil THEN [err |-> ApiErr(d.Err), result |-> d]
    ELSE [err |-> NoErr, result |-> d]

\* Mutant: the closure decoding into a struct of its own, not the captured
\* result.
fnDecodeLocal(req, cancelled, result, res) ==
  LET derr == DoErr(req, cancelled, res) IN
  IF derr # NoErr THEN [err |-> derr, result |-> result]
  ELSE IF responseErr(res) # NoErr
    THEN [err |-> responseErr(res), result |-> result]
  ELSE IF ~res.valid
    THEN [err |-> DecodeErr, result |-> result]
  ELSE LET d == Decode(NoResult, res) IN
    IF d.Err # Nil THEN [err |-> ApiErr(d.Err), result |-> result]
    ELSE [err |-> NoErr, result |-> result]

\* The closure passed to try: one attempt.  Gives the error it returns and
\* the result struct it leaves.
fn(req, cancelled, result, res) ==
  LET derr == DoErr(req, cancelled, res) IN
  IF derr # NoErr THEN [err |-> derr, result |-> result]
  ELSE IF responseErr(res) # NoErr
    THEN [err |-> responseErr(res), result |-> result]
  ELSE IF ~res.valid
    THEN [err |-> DecodeErr, result |-> Decode(result, res)]
  ELSE LET d == Decode(result, res) IN
    IF d.Err # Nil THEN [err |-> ApiErr(d.Err), result |-> d]
    ELSE [err |-> NoErr, result |-> d]

\* Mutant: try goes round again after an API error too.
RetryableApi(err) == err.kind \in {"transport", "status", "api"}

\* try(retries, fn): whether fn is called again after `done` calls, the last
\* of which returned err.
Retryable(err) == err.kind \in {"transport", "status"}
TryAgain(retries, done, err) == Retryable(err) /\ done < retries

\* Mutant: the method without the nil check of the payload.
OutcomeNoNilCheck(err, result) ==
  IF err # NoErr THEN [val |-> Nil, err |-> err]
  ELSE [val |-> result.payload, err |-> NoErr]

\* Mutant: the method returns the payload whenever one was decoded, the
\* error of try only without one.
OutcomePayloadFirst(err, result) ==
  IF result.payload # Nil THEN [val |-> result.payload, err |-> NoErr]
  ELSE IF err # NoErr THEN [val |-> Nil, err |-> err]
  ELSE [val |-> Nil, err |-> MissingResult]

\* After try: `if err != nil { return nil, err }`, then the nil check of the
\* payload and the return of the payload.
Outcome(err, result) ==
  IF err # NoErr THEN [val |-> Nil, err |-> err]
  ELSE IF result.payload = Nil THEN [val |-> Nil, err |-> MissingResult]
  ELSE [val |-> result.payload, err |-> NoErr]

\* ---------------------------------------------------------- the iterators
\* &BlockListPagingIterator{params: p, service: s}
NewIterator(svc, p) ==
  [svc |-> svc, cursor |-> "", response |-> Nil, params |-> p]

\* Mutant: Next looks at the cursor alone.
NextCursorOnly(c) == c.cursor # ""

\* func (c *...PagingIterator) Next() bool
Next(c) == IF c.cursor = "" /\ c.response # Nil THEN FALSE ELSE TRUE

\* Mutant: Value without `c.cursor = c.response.Meta.Cursors.After`.
StorePageKeepCursor(c, page) == [c EXCEPT !.response = page]

\* c.response = result.<ListResult>; c.cursor = c.response.Meta.Cursors.After
StorePage(c, page) ==
  [c EXCEPT !.response = page, !.cursor = Deref(page).after]

\* Mutant: the page and its cursor stored by one statement.
SetResponseAndCursor(c, page) ==
  [c EXCEPT !.response = page, !.cursor = Deref(page).after]

\* The two statements of StorePage one by one, as another goroutine sees
\* them.  c.response = result.<ListResult>
SetResponse(c, page) == [c EXCEPT !.response = page]
\* c.cursor = <the After read from c.response>
SetCursor(c, after) == [c EXCEPT !.cursor = after]

\* ------------------------------------------------------------------ state
VARIABLES
  call,      \* per goroutine: the service call it is in, with its locals
  iter,      \* per iterator instance: svc, cursor, response, params
  nextKey,   \* the next key NewIdempotencyKey returns
  keyLog,    \* history: the Idempotency-Key of each write call made without
             \* the key option, in call order
  hist       \* history, per iterator instance: pages handed out by fetching
             \* Value calls, good list responses received, last page
             \* fetched, the parameters All was given

vars == <<call, iter, nextKey, keyLog, hist>>

NoRet == [val |-> Nil, err |-> NoErr]

\* A goroutine outside any call.  In a call, pc is "try" while try runs and
\* "done" once the method has returned.  err is the error of the last call
\* of fn inside try.  At "done" the locals (opts, o, req, result, err) are
\* gone, ret is what the method returned, attempts and res are the number
\* of round trips it made and the response to the last of them.
IdleCall ==
  [ pc |-> "idle", op |-> "", it |-> "", opts |-> <<>>,
    o |-> NewRequestOptions, req |-> Nil, cancelled |-> FALSE,
    result |-> NoResult, err |-> NoErr, attempts |-> 0, res |-> Nil,
    ret |-> NoRet ]

NewHist(p) == [fetched |-> 0, good |-> 0, last |-> Nil, params0 |-> p]

\* NewIdempotencyKey(): a key no earlier call of it returned.
NewIdempotencyKey == nextKey

Init ==
  /\ call = [c \in Callers |-> IdleCall]
  /\ iter \in [Iters -> {NewIterator(svc, p) : svc \in Services, p \in ParamChoices}]
  /\ \A i \in Iters \ SeqIters : iter[i] = NewIterator("block", NoParams)
  /\ nextKey = 1
  /\ keyLog = <<>>
  /\ hist = [i \in Iters |-> NewHist(iter[i].params)]

\* ------------------------------------------------------ the service methods
\* A service method up to the call of try: the options, the idempotency key,
\* the request.
Invoke(c, op, identity, p, opts) ==
  LET o0 == ApplyOptions(NewRequestOptions, opts)
      gen == op \in WriteOps /\ o0.idempotencyKey = 0
      o == IF op \in WriteOps
           THEN DefaultIdempotencyKey(o0, NewIdempotencyKey) ELSE o0
      req == BuildRequest(op, identity, p, o)
  IN /\ call[c].pc = "idle"
     /\ gen => nextKey <= MaxKeys
     /\ call' = [call EXCEPT ![c] =
          [IdleCall EXCEPT !.pc = "try", !.op = op, !.opts = opts, !.o = o,
                           !.req = Ptr(req)]]
     /\ nextKey' = IF gen THEN nextKey + 1 ELSE nextKey
     /\ keyLog' = IF gen THEN Append(keyLog, req.key) ELSE keyLog
     /\ UNCHANGED <<iter, hist>>

BlockService_Create(c) ==
  \E opts \in OptLists : Invoke(c, "Block.Create", "", NoParams, opts)

BlockService_Get(c) ==
  \E opts \in OptLists : Invoke(c, "Block.Get", "BL1", NoParams, opts)

BlockService_List(c) ==
  \E opts \in OptLists, p \in ParamChoices : Invoke(c, "Block.List", "", p, opts)

BlockService_Disable(c) ==
  \E opts \in OptLists : Invoke(c, "Block.Disable", "BL1", NoParams, opts)

BlockService_Enable(c) ==
  \E opts \in OptLists : Invoke(c, "Block.Enable", "BL1", NoParams, opts)

BlockService_BlockByRef(c) ==
  \E opts \in OptLists : Invoke(c, "Block.BlockByRef", "", NoParams, opts)

WebhookService_List(c) ==
  \E opts \in OptLists, p \in ParamChoices : Invoke(c, "Webhook.List", "", p, opts)

WebhookService_Get(c) ==
  \E opts \in OptLists : Invoke(c, "Webhook.Get", "WB1", NoParams, opts)

WebhookService_Retry(c) ==
  \E opts \in OptLists : Invoke(c, "Webhook.Retry", "WB1", NoParams, opts)

\* --------------------------------------------------------------- iterators
\* All(ctx, p): a new iterator; the caller's variable now holds it.
All(i, svc, p) ==
  /\ \A c \in Callers : call[c].pc = "idle"
  /\ iter' = [iter EXCEPT ![i] = NewIterator(svc, p)]
  /\ hist' = [hist EXCEPT ![i] = NewHist(p)]
  /\ UNCHANGED <<call, nextKey, keyLog>>

BlockService_All(i) == \E p \in ParamChoices : All(i, "block", p)
WebhookService_All(i) == \E p \in ParamChoices : All(i, "webhook", p)

\* Value up to the call of try: the early return of the cached page, or the
\* request for the page after the cursor.
Value(c, i, svc) ==
  LET it == iter[i] IN
  /\ call[c].pc = "idle"
  /\ it.svc = svc
  /\ IF ~Next(it)
     THEN call' = [call EXCEPT ![c] =
            [IdleCall EXCEPT !.pc = "done", !.op = ValueOp(svc), !.it = i,
                             !.ret = [val |-> it.response, err |-> NoErr]]]
     ELSE /\ hist[i].fetched < MaxPages
          /\ call' = [call EXCEPT ![c] =
               [IdleCall EXCEPT !.pc = "try", !.op = ValueOp(svc), !.it = i,
                                !.o.retries = ValueRetries,
                                !.req = Ptr(BuildValueRequest(ValueOp(svc), it))]]
  /\ UNCHANGED <<iter, nextKey, keyLog, hist>>

BlockListPagingIterator_Value(c, i) == Value(c, i, "block")
WebhookListPagingIterator_Value(c, i) == Value(c, i, "webhook")

\* ----------------------------------------------------------------- try/fn
\* A response the iterator can make a page of: 2xx, decodable, no error key,
\* the page present.
GoodResponse(res) ==
  /\ ~res.dial /\ res.status \in 200..299 /\ res.valid
  /\ res.error = Nil /\ res.payload # Nil

\* The request body after the round trip: a bytes.Buffer that was read is
\* empty from then on.
BodyAfter(req, res) ==
  IF req.body = "full" /\ res.read THEN "drained" ELSE req.body

\* One call of fn by try, and what follows it: either try calls fn again,
\* or try returns and the method returns.
Attempt(c) ==
  LET r == call[c]
      req == Deref(r.req)
  IN
  /\ r.pc = "try"
  /\ \E res \in Responses(r.op) :
       LET out == fn(req, r.cancelled, r.result, res)
           n == r.attempts + 1
           req2 == [req EXCEPT !.body = BodyAfter(req, res)]
           ret == Outcome(out.err, out.result)
           isValue == r.op \in ValueOps
           got == DoErr(req, r.cancelled, res) = NoErr
           good == IF isValue /\ got /\ GoodResponse(res) THEN 1 ELSE 0
       IN
       IF TryAgain(r.o.retries, n, out.err)
       THEN /\ call' = [call EXCEPT ![c] =
                 [r EXCEPT !.attempts = n, !.result = out.result,
                           !.err = out.err, !.req = Ptr(req2)]]
            /\ hist' = IF isValue
                       THEN [hist EXCEPT ![r.it].good = @ + good] ELSE hist
            /\ UNCHANGED <<iter, nextKey, keyLog>>
       ELSE /\ call' = [call EXCEPT ![c] =
                 [IdleCall EXCEPT !.pc = "done", !.op = r.op, !.it = r.it,
                                  !.attempts = n, !.res = Ptr(res), !.ret = ret]]
            /\ IF isValue /\ ret.err = NoErr
               THEN /\ iter' = [iter EXCEPT ![r.it] = StorePage(@, ret.val)]
                    /\ hist' = [hist EXCEPT ![r.it] =
                         [@ EXCEPT !.fetched = @ + 1, !.good = @ + good,
                                   !.last = ret.val]]
               ELSE /\ iter' = iter
                    /\ hist' = IF isValue
                               THEN [hist EXCEPT ![r.it].good = @ + good] ELSE hist
            /\ UNCHANGED <<nextKey, keyLog>>

\* The caller cancels the context it passed to the call in progress.
Cancel(c) ==
  /\ call[c].pc = "try"
  /\ ~call[c].cancelled
  /\ call' = [call EXCEPT ![c].cancelled = TRUE]
  /\ UNCHANGED <<iter, nextKey, keyLog, hist>>

\* The caller has the returned value and goes on.
Finish(c) ==
  /\ call[c].pc = "done"
  /\ call' = [call EXCEPT ![c] = IdleCall]
  /\ UNCHANGED <<iter, nextKey, keyLog, hist>>

\* ---------------------------------------------------------- specification
\* One goroutine, one iterator variable.
SeqNext ==
  \E c \in SeqCallers :
    \/ BlockService_Create(c)
    \/ BlockService_Get(c)
    \/ BlockService_List(c)
    \/ BlockService_Disable(c)
    \/ BlockService_Enable(c)
    \/ BlockService_BlockByRef(c)
    \/ WebhookService_List(c)
    \/ WebhookService_Get(c)
    \/ WebhookService_Retry(c)
    \/ \E i \in SeqIters : BlockService_All(i)
    \/ \E i \in SeqIters : WebhookService_All(i)
    \/ \E i \in SeqIters : BlockListPagingIterator_Value(c, i)
    \/ \E i \in SeqIters : WebhookListPagingIterator_Value(c, i)
    \/ Attempt(c)
    \/ Cancel(c)
    \/ Finish(c)

Spec == Init /\ [][SeqNext]_vars

\* --------------------------------------------- concurrent specification
\* Two goroutines and two iterators made by All with no parameter set, the
\* first of either service, the second a webhook iterator.  g1 calls Value on the first iterator, g2 on either,
\* and nothing orders the steps of the two: the statements that end a
\* fetching Value call (store the page, read its cursor, store the cursor,
\* return c.response) are steps of their own.  In a call, pc is then
\* "L426", "L427", "L427w", "L428": the statement the goroutine is at.
ConcInit ==
  /\ call = [c \in Callers |-> IdleCall]
  /\ iter \in [Iters -> {NewIterator(svc, NoParams) : svc \in Services}]
  /\ \A i \in Iters \ SeqIters : iter[i] = NewIterator("webhook", NoParams)
  /\ nextKey = 1
  /\ keyLog = <<>>
  /\ hist = [i \in Iters |-> NewHist(NoParams)]

\* The pages stored into the two iterators so far.
ConcFetched == hist["it1"].fetched + hist["it2"].fetched

\* Which iterator a goroutine calls Value on, and until when.
ConcMayCall(c, i) ==
  /\ c \in SeqCallers => i \in SeqIters
  /\ ConcFetched < ConcPages

\* The last call of fn by try in Value, when it gave a page: try returns nil
\* and the nil check passes.  The call keeps its request.
ValueFetched(c) ==
  LET r == call[c]
      req == Deref(r.req)
  IN
  /\ r.pc = "try"
  /\ r.op \in ValueOps
  /\ \E res \in Responses(r.op) :
       LET out == fn(req, r.cancelled, r.result, res) IN
       /\ Outcome(out.err, out.result).err = NoErr
       /\ call' = [call EXCEPT ![c] =
            [r EXCEPT !.pc = "L426", !.attempts = @ + 1, !.result = out.result,
                      !.err = NoErr, !.res = Ptr(res)]]
       /\ hist' = [hist EXCEPT ![r.it].good = @ + 1]
  /\ UNCHANGED <<iter, nextKey, keyLog>>

\* c.response = result.<ListResult>
StoreResponse(c) ==
  LET r == call[c] IN
  /\ r.pc = "L426"
  /\ iter' = [iter EXCEPT ![r.it] = SetResponse(@, r.result.payload)]
  /\ hist' = [hist EXCEPT ![r.it] =
       [@ EXCEPT !.fetched = @ + 1, !.last = r.result.payload]]
  /\ call' = [call EXCEPT ![c].pc = "L427"]
  /\ UNCHANGED <<nextKey, keyLog>>

\* The right-hand side of c.cursor = c.response.Meta.Cursors.After: the
\* goroutine reads c.response, whoever stored it.
LoadCursor(c) ==
  LET r == call[c] IN
  /\ r.pc = "L427"
  /\ call' = [call EXCEPT ![c] =
       [r EXCEPT !.pc = "L427w", !.result.payload = iter[r.it].response]]
  /\ UNCHANGED <<iter, nextKey, keyLog, hist>>

\* The assignment to c.cursor of the After just read.
StoreCursor(c) ==
  LET r == call[c] IN
  /\ r.pc = "L427w"
  /\ iter' = [iter EXCEPT ![r.it] = SetCursor(@, Deref(r.result.payload).after)]
  /\ call' = [call EXCEPT ![c].pc = "L428"]
  /\ UNCHANGED <<nextKey, keyLog, hist>>

\* return c.response, nil
ReturnPage(c) ==
  LET r == call[c] IN
  /\ r.pc = "L428"
  /\ call' = [call EXCEPT ![c] =
       [IdleCall EXCEPT !.pc = "done", !.op = r.op, !.it = r.it,
                        !.req = r.req, !.attempts = r.attempts, !.res = r.res,
                        !.ret = [val |-> iter[r.it].response, err |-> NoErr]]]
  /\ UNCHANGED <<iter, nextKey, keyLog, hist>>

\* The responses that end a call in an error, as the concurrent
\* specification draws them: the round trip fails, or the status is an
\* error, or the body decodes to an error or to nothing.
ConcFailures(op) ==
  {res \in Responses(op) : res.read /\ (res.dial \/ res.valid) /\ res.payload = Nil}

\* A call of fn that does not end the call with a page: Attempt as it is.
FailedAttempt(c) ==
  /\ Attempt(c)
  /\ call'[c].pc = "done" =>
       /\ call'[c].ret.err # NoErr
       /\ Deref(call'[c].res) \in ConcFailures(call'[c].op)

ConcNext ==
  \E c \in Callers :
    \/ \E i \in Iters : ConcMayCall(c, i) /\ BlockListPagingIterator_Value(c, i)
    \/ \E i \in Iters : ConcMayCall(c, i) /\ WebhookListPagingIterator_Value(c, i)
    \/ FailedAttempt(c)
    \/ ValueFetched(c)
    \/ StoreResponse(c)
    \/ LoadCursor(c)
    \/ StoreCursor(c)
    \/ ReturnPage(c)
    \/ Finish(c)

ConcSpec == ConcInit /\ [][ConcNext]_vars

\* ------------------------------------------------------- reading the state
InTry(c) == call[c].pc = "try"
IsDone(c) == call[c].pc = "done"
\* The request the next client.Do(req) of the call sends.
Req(c) == Deref(call[c].req)
\* A response with a successful HTTP status.
OkStatus(res) == ~res.dial /\ res.status \in 200..299
\* The call made a round trip and `res` answered the last one.
LastResponse(c, res) == IsDone(c) /\ call[c].res = Ptr(res)
\* The after cursor of the last page the iterator fetched, "" before any.
LastAfter(i) == IF hist[i].last = Nil THEN "" ELSE Deref(hist[i].last).after
\* A page was fetched and its after cursor is empty.
Exhausted(i) == hist[i].last # Nil /\ LastAfter(i) = ""

\* ---------------------------------------------------------------------- C1
\* C1: the pages an iterator hands out are as many as the good list
\* responses it received; once the page with the empty after cursor is
\* fetched Next() is false and no Value call on that iterator is in try
\* (no request is sent); a Value call that returns without a round trip
\* does so only on an exhausted iterator, and every Value call that
\* succeeds returns the last page fetched.
C1_Pagination ==
  /\ \A i \in Iters :
       /\ hist[i].fetched = hist[i].good
       /\ Exhausted(i) => ~Next(iter[i])
  /\ \A c \in Callers : call[c].op \in ValueOps =>
       LET i == call[c].it IN
       /\ InTry(c) => ~Exhausted(i)
       /\ IsDone(c) /\ call[c].ret.err = NoErr => call[c].ret.val = hist[i].last
       /\ IsDone(c) /\ call[c].attempts = 0 =>
            call[c].ret.err = NoErr /\ Exhausted(i)

\* Two pages were fetched from two good responses, the second one ended the
\* listing, and a later Value call returned it again without a round trip.
C1_Witness ==
  \E c \in Callers :
    /\ IsDone(c) /\ call[c].op \in ValueOps /\ call[c].attempts = 0
    /\ hist[call[c].it].fetched = 2 /\ hist[call[c].it].good = 2
    /\ call[c].ret.val = hist[call[c].it].last
    /\ ~Next(iter[call[c].it])

\* ---------------------------------------------------------------------- C2
\* C2: a call whose last response has a successful status and a decoded
\* body with the error key populated returns that API error and no payload.
C2_ApiErrorFails ==
  \A c \in Callers : \A res \in Responses(call[c].op) :
    LastResponse(c, res) /\ OkStatus(res) /\ res.valid /\ res.error # Nil =>
      call[c].ret = [val |-> Nil, err |-> ApiErr(res.error)]

\* A 200 response carrying both the error and the payload ended in the error.
C2_Witness ==
  \E c \in Callers : \E res \in Responses(call[c].op) :
    /\ LastResponse(c, res) /\ OkStatus(res) /\ res.valid
    /\ res.error # Nil /\ res.payload # Nil
    /\ call[c].ret.err.kind = "api" /\ call[c].ret.val = Nil

\* ---------------------------------------------------------------------- C3
\* C3: a call whose last response has a successful status and a decoded
\* body with neither the error nor the payload populated returns the error
\* "missing result"; and try goes round again only after a transport error
\* or an error status, so never after such a response.
C3_MissingResult ==
  \A c \in Callers :
    /\ \A res \in Responses(call[c].op) :
         LastResponse(c, res) /\ OkStatus(res) /\ res.valid
           /\ res.error = Nil /\ res.payload = Nil =>
             call[c].ret = [val |-> Nil, err |-> MissingResult]
    /\ InTry(c) /\ call[c].attempts > 0 =>
         call[c].err \in {TransportErr, StatusErr}
    /\ IsDone(c) /\ call[c].ret.err = MissingResult => call[c].ret.val = Nil

\* A first response with an empty envelope ended the call with the error.
C3_Witness ==
  \E c \in Callers : \E res \in Responses(call[c].op) :
    /\ LastResponse(c, res) /\ OkStatus(res) /\ res.valid
    /\ res.error = Nil /\ res.payload = Nil
    /\ call[c].attempts = 1 /\ call[c].ret.err = MissingResult

\* ---------------------------------------------------------------------- C4
\* The retry count the call runs under, from what the caller passed.
RECURSIVE RetriesOption(_)
RetriesOption(opts) ==
  IF opts = <<>> THEN 3
  ELSE LET last == opts[Len(opts)] IN
       IF last.opt = "retries" THEN last.n
       ELSE RetriesOption(SubSeq(opts, 1, Len(opts) - 1))
RetriesOf(c) ==
  IF call[c].op \in ValueOps THEN 3 ELSE RetriesOption(call[c].opts)

\* The error of a round trip that failed, NoErr when it did not.
RoundTripErr(res) ==
  IF res.dial THEN TransportErr
  ELSE IF res.status \notin 200..299 THEN StatusErr
  ELSE NoErr

C4_Step(c) ==
  LET r == call[c]
      r2 == call'[c]
  IN
  /\ r2.pc = "try" =>
       /\ r2.o.retries = RetriesOf(c)'
       /\ r2.attempts < r2.o.retries
       /\ r2.attempts > 0 => r2.err \in {TransportErr, StatusErr}
  /\ r.pc = "try" /\ r2.attempts # r.attempts =>
       /\ r2.attempts = r.attempts + 1
       /\ r2.attempts <= r.o.retries
  /\ r.pc = "try" /\ r2.pc = "done" =>
       LET res == Deref(r2.res) IN
       IF RoundTripErr(res) # NoErr
       THEN /\ r2.attempts = r.o.retries
            /\ r2.ret = [val |-> Nil, err |-> RoundTripErr(res)]
       ELSE r2.ret.err \notin {TransportErr, StatusErr}

\* C4: a call runs under the retry count the caller passed, 3 without one
\* and 3 in Value; while try runs fewer attempts than that were made, each
\* of them ended in a transport error or an error status; an attempt is one
\* more round trip and never goes past the count; the call ends on the
\* first attempt that is not such a failure, or on the failure of attempt
\* number `retries`, and then returns that last error.
C4_RetryPolicy == [][\A c \in Callers : C4_Step(c)]_vars

\* Create under the default count: two failed attempts, then success.
C4_Witness ==
  \E c \in Callers :
    /\ IsDone(c) /\ call[c].op = "Block.Create"
    /\ call[c].attempts = 3 /\ call[c].ret.err = NoErr /\ call[c].ret.val # Nil

\* ---------------------------------------------------------------------- C5
\* The key the caller gave with the key option, 0 when it gave none.
RECURSIVE KeyOption(_)
KeyOption(opts) ==
  IF opts = <<>> THEN 0
  ELSE LET last == opts[Len(opts)] IN
       IF last.opt = "key" THEN last.key
       ELSE KeyOption(SubSeq(opts, 1, Len(opts) - 1))

\* The Idempotency-Key among the caller's header overrides, 0 when none.
RECURSIVE KeyOverride(_)
KeyOverride(opts) ==
  IF opts = <<>> THEN 0
  ELSE LET last == opts[Len(opts)] IN
       IF last.opt = "headers"
       THEN IF "Idempotency-Key" \in DOMAIN last.headers
            THEN last.headers["Idempotency-Key"] ELSE 0
       ELSE KeyOverride(SubSeq(opts, 1, Len(opts) - 1))

\* The keys carried by the write calls made without the key option differ
\* pairwise, and none is empty.
DistinctKeys ==
  /\ \A m, n \in 1..Len(keyLog) : m # n => keyLog[m] # keyLog[n]
  /\ \A m \in 1..Len(keyLog) : keyLog[m] # 0

\* The key every attempt of a write call made without the key option
\* carries: the one logged when the call began.
CarriesLoggedKey(c) == keyLog # <<>> /\ Req(c).key = keyLog[Len(keyLog)]

\* C5 as stated: without a key from the caller the calls carry distinct
\* generated keys, the same one on every attempt; with a key from the caller
\* every attempt carries that key.
C5_Original ==
  /\ DistinctKeys
  /\ \A c \in Callers : InTry(c) /\ call[c].op \in WriteOps =>
       IF KeyOption(call[c].opts) = 0
       THEN CarriesLoggedKey(c)
       ELSE Req(c).key = KeyOption(call[c].opts)

\* C5 amended: as stated, but a caller's header override of Idempotency-Key
\* is what every attempt carries, whatever the key option says.
C5_IdempotencyKey ==
  /\ DistinctKeys
  /\ \A c \in Callers : InTry(c) /\ call[c].op \in WriteOps =>
       IF KeyOverride(call[c].opts) # 0
       THEN Req(c).key = KeyOverride(call[c].opts)
       ELSE IF KeyOption(call[c].opts) = 0
       THEN CarriesLoggedKey(c)
       ELSE Req(c).key = KeyOption(call[c].opts)

\* The second call made without a key is about to retry, with its own key.
C5_Witness ==
  \E c \in Callers :
    /\ InTry(c) /\ call[c].op = "Webhook.Retry" /\ call[c].opts = <<>>
    /\ call[c].attempts = 2 /\ Len(keyLog) = 2
    /\ Req(c).key = keyLog[2] /\ keyLog[1] # keyLog[2]

\* ---------------------------------------------------------------------- C6
\* C6: Next() is true exactly when no page was fetched yet or the after
\* cursor of the last page fetched is not empty.
C6_NextStates ==
  \A i \in Iters : Next(iter[i]) = (hist[i].last = Nil \/ LastAfter(i) # "")

\* An iterator that fetched pages and is exhausted: Next() is false.
C6_Witness ==
  \E i \in Iters :
    /\ hist[i].fetched > 0 /\ LastAfter(i) = "" /\ ~Next(iter[i])
    /\ \A c \in Callers : call[c].pc = "idle"

\* ---------------------------------------------------------------------- C7
\* A response with a successful status whose decoded body has the error key.
ApiErrorResponse(res) == OkStatus(res) /\ res.valid /\ res.error # Nil

\* C7: try never goes round again after an API error: while try runs the
\* last error is none of those, and a call that received such a response
\* received it last and returned its error.
C7_ApiErrorNotRetried ==
  \A c \in Callers :
    /\ InTry(c) => call[c].err.kind # "api"
    /\ \A res \in Responses(call[c].op) :
         LastResponse(c, res) /\ ApiErrorResponse(res) =>
           call[c].ret.err = ApiErr(res.error)

\* Value, which runs under 3 attempts, returned an API error after one.
C7_Witness ==
  \E c \in Callers :
    /\ IsDone(c) /\ call[c].op \in ValueOps /\ call[c].attempts = 1
    /\ call[c].ret.err.kind = "api"

\* ---------------------------------------------------------------------- C8
\* C8: once the caller's context is cancelled, the next attempt of the call
\* is given up with the context's error and the call returns it: no
\* attempt gets a response and none is retried.
C8_CancelStopsCall ==
  [][\A c \in Callers :
       InTry(c) /\ call[c].cancelled /\ call'[c] # call[c] =>
         call'[c].pc = "done" /\ call'[c].ret.err = CanceledErr]_vars

\* ---------------------------------------------------------------------- C9
\* C9: the request of every attempt carries every standard header.
C9_StandardHeaders ==
  \A c \in Callers : InTry(c) =>
    \A h \in StandardHeaders : Req(c).header[h] # ""

\* --------------------------------------------------------------------- C10
\* C10: the request Value sends asks for the page after the cursor of the
\* last page fetched (no `after` before any), with the other parameters as
\* given to All; the iterator holds the last page fetched and its cursor;
\* its parameters stay those given to All.
C10_ValueCursor ==
  /\ \A c \in Callers : InTry(c) /\ call[c].op \in ValueOps =>
       LET i == call[c].it IN
       /\ QueryGet(Req(c).query, "after") = LastAfter(i)
       /\ "after" \in DOMAIN Req(c).query <=> LastAfter(i) # ""
       /\ \A k \in ParamKeys \ {"after"} :
            k \in DOMAIN Req(c).query =>
              Req(c).query[k] = hist[i].params0[k]
       /\ \A k \in ParamKeys \ {"after"} :
            k \in DOMAIN Req(c).query <=> hist[i].params0[k] # Zero(k)
  /\ \A i \in Iters :
       /\ iter[i].response = hist[i].last
       /\ iter[i].cursor = LastAfter(i)
       /\ iter[i].params = hist[i].params0

\* The first Value call of an iterator whose parameters have After set
\* sends no `after`.
C10_Witness ==
  \E c \in Callers :
    /\ InTry(c) /\ call[c].op \in ValueOps
    /\ iter[call[c].it].params.after = "A" /\ hist[call[c].it].last = Nil
    /\ "after" \notin DOMAIN Req(c).query

\* --------------------------------------------------------------------- C11
\* What a step of goroutine c, in a Value call on iterator i, does to the
\* iterators.
C11_Step(c) ==
  LET r == call[c]
      r2 == call'[c]
      i == IF r.pc = "idle" THEN r2.it ELSE r.it
  IN
  r2 # r =>
    /\ \A j \in Iters \ {i} : iter'[j] = iter[j]
    /\ iter'[i].params = iter[i].params
    /\ r.pc = "L426" =>
         iter'[i].response = r.result.payload /\ iter'[i].cursor = iter[i].cursor
    /\ r.pc = "L427w" =>
         /\ iter'[i].response = iter[i].response
         /\ iter'[i].cursor = Deref(r.result.payload).after
    /\ r.pc = "L428" => r2.ret = [val |-> iter[i].response, err |-> NoErr]
    /\ r.pc \notin {"L426", "L427w"} => iter'[i] = iter[i]

\* C11: Value calls of two goroutines running at once write the iterator in
\* place: the page a call fetched and the cursor it read replace what the
\* iterator held, whoever stored that; the call returns the page the
\* iterator holds when it returns, so the page cached in the end is the one
\* returned by the call that finished last; and no step of a Value call on
\* one iterator changes another iterator.
C11_ValueRace == [][\A c \in Callers : C11_Step(c)]_vars

\* Two Value calls on one iterator sent the same request (the same cursor),
\* each fetched a page, and the iterator holds the page and the cursor of
\* the second: it is exhausted, though the first call returned a page with
\* a cursor to go on from.
C11_Witness ==
  \E i \in Iters : \E c1, c2 \in Callers :
    /\ c1 # c2
    /\ \A c \in {c1, c2} :
         /\ IsDone(c) /\ call[c].it = i /\ call[c].attempts > 0
         /\ call[c].ret.err = NoErr
    /\ call[c1].req # Nil /\ call[c1].req = call[c2].req
    /\ call[c1].ret.val # call[c2].ret.val
    /\ Deref(call[c1].ret.val).after = "A"
    /\ iter[i].response = call[c2].ret.val
    /\ iter[i].cursor = "" /\ iter[i].cursor = Deref(call[c2].ret.val).after
    /\ hist[i].fetched = 2

\* --------------------------------------------------------------------- C12
\* C12: a call whose last response has a successful status and a decoded
\* body with the payload and no error returns that payload, whatever the
\* attempts before it received; and when try calls fn again the result
\* struct is as declared, so no attempt finds in it what an earlier one
\* decoded.
C12_FinalAttemptDecides ==
  \A c \in Callers :
    /\ InTry(c) => call[c].result = NoResult
    /\ \A res \in Responses(call[c].op) :
         LastResponse(c, res) /\ GoodResponse(res) =>
           call[c].ret = [val |-> res.payload, err |-> NoErr]

\* List failed twice, and the third attempt's page is what it returned.
C12_Witness ==
  \E c \in Callers : \E res \in Responses(call[c].op) :
    /\ LastResponse(c, res) /\ GoodResponse(res)
    /\ call[c].op = "Block.List" /\ call[c].attempts = 3
    /\ call[c].ret.err = NoErr /\ call[c].ret.val = res.payload

\* --------------------------------------------------------------------- C13
\* C13: the request of every attempt of Create and BlockByRef has the whole
\* JSON body to send: the buffer the body was encoded into is unread.
C13_SameBody ==
  \A c \in Callers : InTry(c) /\ call[c].op \in BodyOps =>
    Req(c).body = "full"

\* --------------------------------------------------------------------- C14
\* A step of a Value call of goroutine c that is not the return of a page.
C14_Step(c) ==
  LET r == call[c]
      r2 == call'[c]
      i == r.it
  IN
  InTry(c) /\ r.op \in ValueOps =>
    /\ r2.pc = "try" => iter'[i] = iter[i]
    /\ r2.pc = "done" /\ ~GoodResponse(Deref(r2.res)) =>
         /\ r2.ret.val = Nil /\ r2.ret.err # NoErr
         /\ iter'[i] = iter[i]
         /\ Next(iter'[i]) = Next(iter[i])
         /\ BuildValueRequest(r.op, iter'[i]) = Deref(r.req)

\* C14: a Value call whose last response is not a page (the attempts ran
\* out on transport errors or error statuses, or the body did not decode,
\* or it held an error or no page) returns an error and leaves the iterator
\* as it was: Next() answers as before, and the request the next Value call
\* builds is the one this call sent.  An attempt that try repeats leaves
\* the iterator alone as well.
C14_FailedValue == [][\A c \in Callers : C14_Step(c)]_vars

\* After one page with a cursor to go on from, a Value call ran out of
\* attempts: the iterator still holds that page and its cursor.
C14_Witness ==
  \E c \in Callers :
    /\ IsDone(c) /\ call[c].op \in ValueOps
    /\ call[c].attempts = 3 /\ call[c].ret.err \in {TransportErr, StatusErr}
    /\ hist[call[c].it].fetched = 1
    /\ iter[call[c].it].response = hist[call[c].it].last
    /\ iter[call[c].it].cursor = "A" /\ Next(iter[call[c].it])

====
